---------------------------- MODULE Spec2Model ----------------------------
(***************************************************************************)
(* Model of network_monitor.py: the probes (check_site, check_dns,         *)
(* check_port, measure_speed), the exporters (save_to_csv, plot_results)   *)
(* and the scheduler loop main(), one action per statement group of the    *)
(* loop body.  Time is counted in whole seconds.                           *)
(***************************************************************************)
EXTENDS Integers, Sequences, FiniteSets, TLC

(***************************************************************************)
(* Configuration (lines 13-28).  The target lists are shortened and the    *)
(* interval and duration are those of the 1 s / 3 s scenario; the shipped  *)
(* file has 8 sites, 2 resolvers, 3 ports, INTERVAL = 180, DURATION = 1800.*)
(***************************************************************************)
SITES == <<"https://www.google.com", "https://www.office.com">>
DNS_SERVERS == <<"8.8.8.8">>
PORTS == <<80>>
INTERVAL == 1
DURATION == 3
\* the literal 3 of `len(results["timestamp"]) % 3`
THROTTLE == 3
\* time.time() at the moment main() is entered, in seconds
EPOCH == 58

\* the timeouts of requests.get (line 44) and of the sockets of check_dns
\* (line 54) and check_port (line 65), in seconds
SITE_TIMEOUT == 5
DNS_TIMEOUT == 2
PORT_TIMEOUT == 2

\* Bounds of the environment: the longest time one call takes (seconds), the
\* time the calls of one run take in total beyond its waits (seconds), and
\* the raw speed-test readings (bits per second: nothing, or BitsStep).
MaxDelay == 1
MaxBusy == 1
BitsStep == 5000000
\* Bounds of a probe call followed in time: the latest reply of a target and
\* the longest time the system resolver takes to give up (seconds).
MaxAnswer == 6
MaxGiveUp == 4

Delays == 0..MaxDelay
RawSpeeds == {0, BitsStep}

Range(s) == {s[k] : k \in 1..Len(s)}

(***************************************************************************)
(* Python values.  Every value is a record with a kind and a number so     *)
(* that values of different kinds can be compared.                         *)
(***************************************************************************)
None == [k |-> "None", n |-> 0]
Float(x) == [k |-> "float", n |-> x]
Bool(b) == [k |-> "bool", n |-> IF b THEN 1 ELSE 0]
Str(s) == [k |-> s, n |-> 0]

\* Python truthiness, as used by `x or "N/A"`
Truthy(v) == CASE v.k = "None" -> FALSE
               [] v.k = "float" -> v.n # 0
               [] v.k = "bool" -> v.n # 0
               [] OTHER -> TRUE

(***************************************************************************)
(* Exceptions.  NoExc stands for a call that returns.  IsInstance is the   *)
(* class test an except clause makes.                                      *)
(***************************************************************************)
NoExc == "none"
IsInstance(exc, cls) ==
    \/ exc = cls
    \/ cls = "RequestException" /\ exc \in {"ConnectionError", "Timeout"}
    \/ cls = "socket.error" /\ exc \in {"herror", "gaierror", "timeout"}
    \/ cls = "SpeedtestException"
         /\ exc \in {"ConfigRetrievalError", "SpeedtestBestServerFailure",
                     "SpeedtestHTTPError"}

\* what the library calls of each probe can raise
HttpExcs == {NoExc, "ConnectionError", "Timeout"}
DnsExcs == {NoExc, "herror"}
SockExcs == {NoExc, "gaierror"}
SpeedExcs == {NoExc, "ConfigRetrievalError", "SpeedtestBestServerFailure",
              "SpeedtestHTTPError", "ValueError"}
StatusCodes == {200, 301, 404, 500}
\* results of connect_ex: 0, EAGAIN (timed out), ECONNREFUSED
ConnectResults == {0, 11, 111}

\* The result of a call: a returned value or a propagating exception.
Return(v) == [raised |-> NoExc, value |-> v]
Raise(exc) == [raised |-> exc, value |-> None]

(***************************************************************************)
(* The probes.  `elapsed` is time.time() - start_time of the probe.        *)
(***************************************************************************)
check_site_AnyOk(exc, status, elapsed) ==
    IF exc = NoExc
    THEN Return(IF status < 400 THEN Float(elapsed * 1000) ELSE None)
    ELSE IF IsInstance(exc, "RequestException") THEN Return(None)
         ELSE Raise(exc)
check_site(exc, status, elapsed) ==
    IF exc = NoExc
    THEN Return(IF status = 200 THEN Float(elapsed * 1000) ELSE None)
    ELSE IF IsInstance(exc, "RequestException") THEN Return(None)
         ELSE Raise(exc)

check_dns(exc, elapsed) ==
    IF exc = NoExc
    THEN Return(Float(elapsed * 1000))
    ELSE IF IsInstance(exc, "socket.error") THEN Return(None)
         ELSE Raise(exc)

\* `errno` is the result of connect_ex: 0 when the connection was made
check_port_NoneOnError(exc, errno) ==
    IF exc = NoExc
    THEN Return(Bool(errno = 0))
    ELSE IF IsInstance(exc, "socket.error") THEN Return(None)
         ELSE Raise(exc)
check_port(exc, errno) ==
    IF exc = NoExc
    THEN Return(Bool(errno = 0))
    ELSE IF IsInstance(exc, "socket.error") THEN Return(Bool(FALSE))
         ELSE Raise(exc)

\* The library calls of the try block, in order (lines 75-78), and those
\* at which `exc` is raised ("return" when nothing is raised).
SpeedStages == <<"Speedtest", "get_best_server", "download", "upload">>
StagesOf(exc) ==
    CASE exc = NoExc -> {"return"}
      [] exc \in {"ConfigRetrievalError", "ValueError"} -> {SpeedStages[1]}
      [] exc = "SpeedtestBestServerFailure" -> {SpeedStages[2]}
      [] exc = "SpeedtestHTTPError" -> {SpeedStages[3], SpeedStages[4]}

\* the readings of the calls that were reached: nothing for a call that
\* did not return
DownloadReadings(stage) ==
    IF stage \in {"upload", "return"} THEN RawSpeeds ELSE {0}
UploadReadings(stage) == IF stage = "return" THEN RawSpeeds ELSE {0}

measure_speed_KeepsDownload(exc, stage, rawDown, rawUp) ==
    IF exc = NoExc
    THEN [raised |-> NoExc, download |-> Float(rawDown \div 1000000),
          upload |-> Float(rawUp \div 1000000)]
    ELSE IF IsInstance(exc, "SpeedtestException")
         THEN [raised |-> NoExc,
               download |-> IF stage = "upload"
                            THEN Float(rawDown \div 1000000) ELSE None,
               upload |-> None]
         ELSE [raised |-> exc, download |-> None, upload |-> None]
measure_speed(exc, stage, rawDown, rawUp) ==
    IF exc = NoExc
    THEN [raised |-> NoExc, download |-> Float(rawDown \div 1000000),
          upload |-> Float(rawUp \div 1000000)]
    ELSE IF IsInstance(exc, "SpeedtestException")
         THEN [raised |-> NoExc, download |-> None, upload |-> None]
         ELSE [raised |-> exc, download |-> None, upload |-> None]

(***************************************************************************)
(* Timestamps: strftime("%Y-%m-%d %H:%M:%S") keeps the fields from the     *)
(* most significant to the least; the model keeps minute and second.       *)
(***************************************************************************)
strftime_SecondsFirst(t) == <<t % 60, t \div 60>>
strftime(t) == <<t \div 60, t % 60>>

\* string order of two timestamps
StrLeq(a, b) == a[1] < b[1] \/ (a[1] = b[1] /\ a[2] <= b[2])


(***************************************************************************)
(* State.                                                                  *)
(*   pc          position of main()                                        *)
(*   now         the system clock (time.time() and datetime.now())         *)
(*   start_time  local of main()                                           *)
(*   results     the module-level dictionary                               *)
(*   idx         position of the running for loop in its list              *)
(*   csv_file    rows of network_monitoring_report.csv                     *)
(*   plot_file   the series drawn in network_monitoring_plot.png           *)
(*   cycles      number of loop bodies that ran to their end (history)     *)
(*   speed_log   per started speed step, whether measure_speed() was       *)
(*               called (history)                                          *)
(*   calls       per target, the probe calls made for it since the cycle   *)
(*               began (history)                                           *)
(*   connected   per port, for each check_port call, whether connect_ex    *)
(*               made the connection (history)                             *)
(*   probe       the probe call followed in time by SpecProbe              *)
(***************************************************************************)
VARIABLES pc, now, start_time, results, idx, csv_file, plot_file, cycles,
          speed_log, calls, probe, connected

vars == <<pc, now, start_time, results, idx, csv_file, plot_file, cycles,
          speed_log, calls, probe, connected>>

\* The calls of the run may take d more seconds: the time spent outside the
\* waits, now - start_time - cycles * INTERVAL, stays within MaxBusy.
MayTake(d) == now + d - start_time - cycles * INTERVAL <= MaxBusy

\* lines 31-38
EmptyResults ==
    [timestamp |-> <<>>,
     site_latencies |-> [s \in Range(SITES) |-> <<>>],
     dns_times |-> [d \in Range(DNS_SERVERS) |-> <<>>],
     port_status |-> [p \in Range(PORTS) |-> <<>>],
     download_speed |-> <<>>,
     upload_speed |-> <<>>]

\* list.append, and a list that drops a value equal to its last one
ListAppendNew(list, v) ==
    IF Len(list) > 0 /\ list[Len(list)] = v THEN list ELSE Append(list, v)
ListAppend_AtFront(list, v) == <<v>> \o list
ListAppend(list, v) == Append(list, v)

\* no chart drawn yet
NoPlot == [x |-> <<>>,
           latency |-> [s \in Range(SITES) |-> <<>>],
           dns |-> [d \in Range(DNS_SERVERS) |-> <<>>],
           download |-> <<>>,
           upload |-> <<>>]

\* no probe called yet in this cycle
NoCalls == [site |-> [s \in Range(SITES) |-> 0],
            dns |-> [d \in Range(DNS_SERVERS) |-> 0],
            port |-> [p \in Range(PORTS) |-> 0]]

\* no probe call is being followed
Idle == [kind |-> "idle", answers |-> FALSE, at |-> 0, exc |-> NoExc,
         status |-> 200, errno |-> 0, giveup |-> 0, t0 |-> 0,
         returned |-> FALSE, result |-> Return(None)]

Init ==
    /\ pc = "start"
    /\ now = EPOCH
    /\ start_time = 0
    /\ results = EmptyResults
    /\ idx = 0
    /\ csv_file = <<>>
    /\ plot_file = NoPlot
    /\ cycles = 0
    /\ speed_log = <<>>
    /\ calls = NoCalls
    /\ connected = [p \in Range(PORTS) |-> <<>>]
    /\ probe = Idle

\* line 147
Start ==
    /\ pc = "start"
    /\ start_time' = now
    /\ pc' = "while"
    /\ UNCHANGED <<now, results, idx, csv_file, plot_file,
                   cycles, speed_log, calls, probe, connected>>

\* line 148: the loop condition
InBudget_Absolute(t, t0) == t < DURATION
InBudget_Inclusive(t, t0) == t - t0 <= DURATION
InBudget(t, t0) == t - t0 < DURATION

LoopCheck ==
    /\ pc = "while"
    /\ pc' = IF InBudget(now, start_time) THEN "timestamp" ELSE "done"
    /\ UNCHANGED <<now, start_time, results, idx, csv_file,
                   plot_file, cycles, speed_log, calls, probe, connected>>

\* lines 149-150
StampCycle(res, t) ==
    [res EXCEPT !.timestamp = ListAppend(@, strftime(t))]

AppendTimestamp ==
    /\ pc = "timestamp"
    /\ results' = StampCycle(results, now)
    /\ pc' = "sites"
    /\ idx' = 1
    /\ calls' = NoCalls
    /\ UNCHANGED <<now, start_time, csv_file, plot_file,
                   cycles, speed_log, probe, connected>>

\* where a for loop goes after the item at position i of list
LoopNext_SkipRest(list, i, here, after) == after
LoopNext(list, i, here, after) == IF i < Len(list) THEN here ELSE after
IdxNext(list, i) == IF i < Len(list) THEN i + 1 ELSE 1

\* lines 153-155: one iteration of `for site in SITES`
RecordSite_SkipNone(res, site, latency) ==
    IF latency = None THEN res
    ELSE [res EXCEPT !.site_latencies[site] = ListAppend(@, latency)]
RecordSite(res, site, latency) ==
    [res EXCEPT !.site_latencies[site] = ListAppend(@, latency)]

SiteStep ==
    /\ pc = "sites"
    /\ \E exc \in HttpExcs, status \in StatusCodes, d \in Delays :
         LET r == check_site(exc, status, d) IN
         /\ MayTake(d)
         /\ now' = now + d
         /\ calls' = [calls EXCEPT !.site[SITES[idx]] = @ + 1]
         /\ IF r.raised = NoExc
            THEN /\ results' = RecordSite(results, SITES[idx], r.value)
                 /\ pc' = LoopNext(SITES, idx, "sites", "dns")
                 /\ idx' = IdxNext(SITES, idx)
            ELSE /\ pc' = "crashed"
                 /\ UNCHANGED <<results, idx>>
    /\ UNCHANGED <<start_time, csv_file, plot_file,
                   cycles, speed_log, probe, connected>>

\* lines 158-160: one iteration of `for dns in DNS_SERVERS`
RecordDns(res, dns, dns_time) ==
    [res EXCEPT !.dns_times[dns] = ListAppend(@, dns_time)]

DnsStep ==
    /\ pc = "dns"
    /\ \E exc \in DnsExcs, d \in Delays :
         LET r == check_dns(exc, d) IN
         /\ MayTake(d)
         /\ now' = now + d
         /\ calls' = [calls EXCEPT !.dns[DNS_SERVERS[idx]] = @ + 1]
         /\ IF r.raised = NoExc
            THEN /\ results' = RecordDns(results, DNS_SERVERS[idx], r.value)
                 /\ pc' = LoopNext(DNS_SERVERS, idx, "dns", "ports")
                 /\ idx' = IdxNext(DNS_SERVERS, idx)
            ELSE /\ pc' = "crashed"
                 /\ UNCHANGED <<results, idx>>
    /\ UNCHANGED <<start_time, csv_file, plot_file,
                   cycles, speed_log, probe, connected>>

\* lines 163-165: one iteration of `for port in PORTS`
RecordPort(res, port, status) ==
    [res EXCEPT !.port_status[port] = ListAppend(@, status)]

PortStep ==
    /\ pc = "ports"
    /\ \E exc \in SockExcs, errno \in ConnectResults, d \in Delays :
         LET r == check_port(exc, errno) IN
         /\ MayTake(d)
         /\ now' = now + d
         /\ calls' = [calls EXCEPT !.port[PORTS[idx]] = @ + 1]
         /\ connected' = [connected EXCEPT
                            ![PORTS[idx]] = Append(@, exc = NoExc /\ errno = 0)]
         /\ IF r.raised = NoExc
            THEN /\ results' = RecordPort(results, PORTS[idx], r.value)
                 /\ pc' = LoopNext(PORTS, idx, "ports", "speed")
                 /\ idx' = IdxNext(PORTS, idx)
            ELSE /\ pc' = "crashed"
                 /\ UNCHANGED <<results, idx>>
    /\ UNCHANGED <<start_time, csv_file, plot_file,
                   cycles, speed_log, probe>>

\* line 168: the throttle test, on the list that already holds this
\* cycle's timestamp
SpeedDue_ZeroBased(res) == (Len(res.timestamp) - 1) % THROTTLE = 0
SpeedDue(res) == Len(res.timestamp) % THROTTLE = 0

\* lines 172-173
RecordSpeed(res, dl, ul) ==
    [res EXCEPT !.download_speed = ListAppend(@, dl),
                !.upload_speed = ListAppend(@, ul)]

\* lines 168-173
SpeedStep ==
    /\ pc = "speed"
    /\ speed_log' = Append(speed_log, SpeedDue(results))
    /\ IF SpeedDue(results)
       THEN \E exc \in SpeedExcs, d \in Delays :
            \E stage \in StagesOf(exc) :
            \E rd \in DownloadReadings(stage), ru \in UploadReadings(stage) :
              LET r == measure_speed(exc, stage, rd, ru) IN
              /\ MayTake(d)
              /\ now' = now + d
              /\ IF r.raised = NoExc
                 THEN /\ results' = RecordSpeed(results, r.download, r.upload)
                      /\ pc' = "save"
                 ELSE /\ pc' = "crashed"
                      /\ UNCHANGED results
       ELSE /\ results' = RecordSpeed(results, None, None)
            /\ pc' = "save"
            /\ UNCHANGED now
    /\ UNCHANGED <<start_time, idx, csv_file, plot_file, cycles, calls,
                   probe, connected>>

(***************************************************************************)
(* save_to_csv (lines 83-102).  A cell is the text csv.writer writes for   *)
(* a value: the digits of a number, True/False, the string itself, and     *)
(* nothing for None.                                                       *)
(***************************************************************************)
CsvText(v) == CASE v.k = "float" -> [k |-> "digits", n |-> v.n]
                [] v.k = "bool" -> [k |-> IF v.n = 1 THEN "True" ELSE "False",
                                    n |-> 0]
                [] v.k = "None" -> [k |-> "", n |-> 0]
                [] OTHER -> v

\* `x or "N/A"`
OrNA(v) == IF Truthy(v) THEN v ELSE Str("N/A")

\* lines 87-89
Headers ==
    <<Str("Timestamp")>>
    \o [i \in 1..Len(SITES) |-> [k |-> "Latency_", n |-> SITES[i]]]
    \o [i \in 1..Len(DNS_SERVERS) |-> [k |-> "DNS_", n |-> DNS_SERVERS[i]]]
    \o [i \in 1..Len(PORTS) |-> [k |-> "Port_", n |-> PORTS[i]]]
    \o <<Str("Download_Speed"), Str("Upload_Speed")>>

\* lines 93-101
CsvRow_NoPorts(res, i) ==
    <<[k |-> "time", n |-> res.timestamp[i]]>>
    \o [j \in 1..Len(SITES) |-> CsvText(OrNA(res.site_latencies[SITES[j]][i]))]
    \o [j \in 1..Len(DNS_SERVERS) |->
           CsvText(OrNA(res.dns_times[DNS_SERVERS[j]][i]))]
    \o <<CsvText(OrNA(res.download_speed[i])),
         CsvText(OrNA(res.upload_speed[i]))>>
CsvRow(res, i) ==
    <<[k |-> "time", n |-> res.timestamp[i]]>>
    \o [j \in 1..Len(SITES) |-> CsvText(OrNA(res.site_latencies[SITES[j]][i]))]
    \o [j \in 1..Len(DNS_SERVERS) |->
           CsvText(OrNA(res.dns_times[DNS_SERVERS[j]][i]))]
    \o [j \in 1..Len(PORTS) |-> CsvText(res.port_status[PORTS[j]][i])]
    \o <<CsvText(OrNA(res.download_speed[i])),
         CsvText(OrNA(res.upload_speed[i]))>>

\* line 92: the rows written, one per index of results["timestamp"]
CsvRows_ButLast(res) == [i \in 1..(Len(res.timestamp) - 1) |-> CsvRow(res, i)]
CsvRows(res) == [i \in 1..Len(res.timestamp) |-> CsvRow(res, i)]

\* the file after save_to_csv: opened with mode 'w', so written anew
save_to_csv_NewestOnly(res) ==
    <<Headers, CsvRow(res, Len(res.timestamp))>>
save_to_csv(res) == <<Headers>> \o CsvRows(res)

\* the lists save_to_csv indexes with i
Indexed(res) ==
    {res.site_latencies[s] : s \in Range(SITES)}
    \cup {res.dns_times[d] : d \in Range(DNS_SERVERS)}
    \cup {res.port_status[p] : p \in Range(PORTS)}
    \cup {res.download_speed, res.upload_speed}

\* the first index of range(len(results["timestamp"])) that one of the lists
\* lacks (IndexError), or 0 when every index read exists
FirstMissing(res) ==
    LET bad == {i \in 1..Len(res.timestamp) :
                   \E list \in Indexed(res) : Len(list) < i}
    IN IF bad = {} THEN 0 ELSE CHOOSE i \in bad : \A j \in bad : i <= j

\* line 176
SaveStep ==
    /\ pc = "save"
    /\ IF FirstMissing(results) = 0
       THEN /\ csv_file' = save_to_csv(results)
            /\ pc' = "plot"
       ELSE /\ csv_file' = <<Headers>>
                 \o [i \in 1..(FirstMissing(results) - 1) |-> CsvRow(results, i)]
            /\ pc' = "crashed"
    /\ UNCHANGED <<now, start_time, results, idx, plot_file, cycles,
                   speed_log, calls, probe, connected>>

(***************************************************************************)
(* plot_results (lines 104-143): each list is drawn against                *)
(* results["timestamp"], None replaced by nan.                             *)
(***************************************************************************)
NaN == [k |-> "nan", n |-> 0]
NanList(list) == [i \in 1..Len(list) |-> IF list[i] = None THEN NaN
                                         ELSE list[i]]

plot_results(res) ==
    [x |-> res.timestamp,
     latency |-> [s \in Range(SITES) |-> NanList(res.site_latencies[s])],
     dns |-> [d \in Range(DNS_SERVERS) |-> NanList(res.dns_times[d])],
     download |-> NanList(res.download_speed),
     upload |-> NanList(res.upload_speed)]

\* line 177, the last statement of a cycle before the wait
PlotStep ==
    /\ pc = "plot"
    /\ plot_file' = plot_results(results)
    /\ cycles' = cycles + 1
    /\ pc' = "sleep"
    /\ UNCHANGED <<now, start_time, results, idx,
                   csv_file, speed_log, calls, probe, connected>>

\* line 179: asyncio.sleep(INTERVAL) resumes after at least INTERVAL seconds
Resume_NoWait(t, late) == t + late
Resume(t, late) == t + INTERVAL + late

Sleep ==
    /\ pc = "sleep"
    /\ \E late \in Delays :
         /\ MayTake(late + INTERVAL)
         /\ now' = Resume(now, late)
    /\ pc' = "while"
    /\ UNCHANGED <<start_time, results, idx, csv_file,
                   plot_file, cycles, speed_log, calls, probe, connected>>

\* line 179: the task is cancelled while it is suspended in the await
Cancel ==
    /\ pc = "sleep"
    /\ pc' = "cancelled"
    /\ UNCHANGED <<now, start_time, results, idx, csv_file,
                   plot_file, cycles, speed_log, calls, probe, connected>>

Next ==
    \/ Start
    \/ LoopCheck
    \/ AppendTimestamp
    \/ SiteStep
    \/ DnsStep
    \/ PortStep
    \/ SpeedStep
    \/ SaveStep
    \/ PlotStep
    \/ Sleep
    \/ Cancel

Spec == Init /\ [][Next]_vars

\* main() is one coroutine run to its end by asyncio.run (line 182): a step
\* that can be taken is taken.
FairSpec == Spec /\ WF_vars(Next)

(***************************************************************************)
(* One probe call followed in time.  The target replies `at` seconds after *)
(* the call (with an error `exc`, a status or a connect result) or never;  *)
(* the call blocks until the reply, until the timeout in force on it, or,  *)
(* with no timeout in force, until the system resolver gives up.           *)
(***************************************************************************)
ProbeKinds == {"check_site", "check_dns", "check_port"}

\* the timeout each probe asks for: lines 44, 54 and 65
Requested(kind) ==
    CASE kind = "check_site" -> SITE_TIMEOUT
      [] kind = "check_dns" -> DNS_TIMEOUT
      [] kind = "check_port" -> PORT_TIMEOUT

\* The timeouts in force on the blocking call of each probe.  check_dns
\* sets its timeout on `sock` (line 54) and resolves with the module
\* function socket.gethostbyaddr (line 56), which does not use `sock`.
InForce(kind) ==
    CASE kind = "check_site" -> {SITE_TIMEOUT}
      [] kind = "check_dns" -> {}
      [] kind = "check_port" -> {PORT_TIMEOUT}

\* what the library calls of each probe can raise
ExcsOf(kind) ==
    CASE kind = "check_site" -> HttpExcs
      [] kind = "check_dns" -> DnsExcs
      [] kind = "check_port" -> SockExcs

ProbeInputs ==
    {p \in [kind : ProbeKinds, answers : BOOLEAN, at : 0..MaxAnswer,
            exc : HttpExcs \cup DnsExcs \cup SockExcs,
            status : StatusCodes, errno : ConnectResults,
            giveup : 0..MaxGiveUp, t0 : {EPOCH}, returned : {FALSE},
            result : {Return(None)}] :
       /\ p.exc \in ExcsOf(p.kind)
       /\ p.kind # "check_site" => p.status = 200
       /\ p.kind # "check_port" => p.errno = 0
       /\ IF p.kind = "check_dns" THEN p.giveup > 0 ELSE p.giveup = 0}

ProbeInit ==
    /\ pc = "start"
    /\ now = EPOCH
    /\ start_time = 0
    /\ results = EmptyResults
    /\ idx = 0
    /\ csv_file = <<>>
    /\ plot_file = NoPlot
    /\ cycles = 0
    /\ speed_log = <<>>
    /\ calls = NoCalls
    /\ connected = [p \in Range(PORTS) |-> <<>>]
    /\ probe \in ProbeInputs

\* the reply arrives before any timeout in force
InTime(p) == p.answers /\ \A t \in InForce(p.kind) : p.at <= t

\* seconds after which the blocking call returns or raises
ReturnsAt(p) ==
    IF InTime(p) THEN p.at
    ELSE IF InForce(p.kind) # {} THEN CHOOSE t \in InForce(p.kind) : TRUE
    ELSE p.giveup

\* what the blocking call raises: the reply's error, or the error of the
\* timeout (connect_ex reports a timeout in its result, not by raising)
Raised(p) ==
    IF InTime(p) THEN p.exc
    ELSE CASE p.kind = "check_site" -> "Timeout"
           [] p.kind = "check_dns" -> "herror"
           [] p.kind = "check_port" -> NoExc

\* the result of connect_ex: EAGAIN on timeout
ConnectResult(p) == IF InTime(p) THEN p.errno ELSE 11

ProbeResult(p, elapsed) ==
    CASE p.kind = "check_site" -> check_site(Raised(p), p.status, elapsed)
      [] p.kind = "check_dns" -> check_dns(Raised(p), elapsed)
      [] p.kind = "check_port" -> check_port(Raised(p), ConnectResult(p))

\* the call is still blocked
ProbeWait ==
    /\ ~probe.returned
    /\ now - probe.t0 < ReturnsAt(probe)
    /\ now' = now + 1
    /\ UNCHANGED <<pc, start_time, results, idx, csv_file, plot_file,
                   cycles, speed_log, calls, probe, connected>>

ProbeReturn ==
    /\ ~probe.returned
    /\ now - probe.t0 = ReturnsAt(probe)
    /\ probe' = [probe EXCEPT !.returned = TRUE,
                              !.result = ProbeResult(probe, now - probe.t0)]
    /\ UNCHANGED <<pc, now, start_time, results, idx, csv_file, plot_file,
                   cycles, speed_log, calls, connected>>

ProbeNext ==
    \/ ProbeWait
    \/ ProbeReturn

SpecProbe == ProbeInit /\ [][ProbeNext]_vars

(***************************************************************************)
(* Properties.                                                             *)
(***************************************************************************)
\* the measurement columns of results, other than the timestamps
Columns(res) ==
    {res.site_latencies[s] : s \in Range(SITES)}
    \cup {res.dns_times[d] : d \in Range(DNS_SERVERS)}
    \cup {res.port_status[p] : p \in Range(PORTS)}
    \cup {res.download_speed, res.upload_speed}

Aligned(res) == \A col \in Columns(res) : Len(col) = Len(res.timestamp)

\* positions of main() at which no cycle is appending
AppendingDone == {"start", "while", "timestamp", "save", "plot", "sleep",
                  "cancelled", "done"}
\* positions of main() between two cycles
BetweenCycles == {"start", "while", "timestamp", "sleep", "cancelled", "done"}

\* every probe of Sample i failed
AllFailed(res, i) ==
    /\ \A s \in Range(SITES) : res.site_latencies[s][i] = None
    /\ \A d \in Range(DNS_SERVERS) : res.dns_times[d][i] = None
    /\ \A p \in Range(PORTS) : res.port_status[p][i] = Bool(FALSE)
    /\ res.download_speed[i] = None
    /\ res.upload_speed[i] = None

\* C1: once a cycle has finished appending, every column of results has as
\* many entries as results["timestamp"], whatever the probes returned.
C1_CompleteSample == pc \in AppendingDone => Aligned(results)

\* a third cycle in which every probe failed, measure_speed() included
C1_AllFailedWitness ==
    /\ pc = "save"
    /\ Len(results.timestamp) = 3
    /\ Len(speed_log) = 3 /\ speed_log[3]
    /\ Aligned(results)
    /\ AllFailed(results, 3)

\* C2: after N completed cycles timestamp and every column hold exactly N
\* entries; a cycle that finished appending and is not yet completed has
\* added one entry to each.
C2_LengthIsCycles ==
    /\ pc \in BetweenCycles =>
         /\ Len(results.timestamp) = cycles
         /\ \A col \in Columns(results) : Len(col) = cycles
    /\ pc \in {"save", "plot"} =>
         /\ Len(results.timestamp) = cycles + 1
         /\ \A col \in Columns(results) : Len(col) = cycles + 1

\* three cycles completed, two of them with the same readings
C2_ThreeCyclesWitness ==
    /\ pc = "done"
    /\ cycles = 3
    /\ \A s \in Range(SITES) :
         results.site_latencies[s][1] = results.site_latencies[s][2]

\* C3: the timestamps of results["timestamp"] are non-decreasing in
\* insertion order.
C3_TimestampsOrdered ==
    \A i, j \in 1..Len(results.timestamp) :
        i < j => StrLeq(results.timestamp[i], results.timestamp[j])

\* three timestamps, the last in the minute after the first
C3_NextMinuteWitness ==
    /\ Len(results.timestamp) = 3
    /\ results.timestamp[1][1] < results.timestamp[3][1]
    /\ results.timestamp[3][2] < results.timestamp[1][2]

\* C4: measure_speed() is called in exactly the cycles whose index, the
\* length of results["timestamp"] after the cycle's append, is a multiple of
\* 3; every other cycle records None for both speeds.
C4_SpeedOnThrottle ==
    /\ \A i \in 1..Len(speed_log) : speed_log[i] <=> (i % 3 = 0)
    /\ \A i \in 1..Len(results.download_speed) :
         ~speed_log[i] => /\ results.download_speed[i] = None
                          /\ results.upload_speed[i] = None

\* the third cycle measured a speed, the first two did not
C4_ThirdCycleWitness ==
    /\ Len(results.upload_speed) = 3
    /\ speed_log = <<FALSE, FALSE, TRUE>>
    /\ results.download_speed[3] # None
    /\ results.download_speed[1] = None /\ results.download_speed[2] = None

\* the number of intervals in the duration
K == DURATION \div INTERVAL

C5_TwoSamplesWitness ==
    /\ pc = "done"
    /\ Len(results.timestamp) = 2
    /\ now - start_time > 2 * INTERVAL

\* C6 as stated: no fault raised inside a probe propagates into main().
C6_NoFaultPropagates == pc # "crashed"

\* C7 as stated: in every state the Sample of the running cycle is either
\* absent from results or present with all its slots.
C7_NoPartialSample == Aligned(results)

\* C8: when main() is cancelled in the wait between two cycles, all columns
\* have the length of results["timestamp"] and the CSV file holds exactly
\* the Samples of the Series.
C8_CancelledConsistent ==
    pc = "cancelled" =>
        /\ Aligned(results)
        /\ Len(csv_file) = 1 + Len(results.timestamp)
        /\ \A i \in 1..Len(results.timestamp) :
             csv_file[i + 1] = CsvRow(results, i)

\* cancelled in the wait after the second cycle
C8_CancelledWitness ==
    /\ pc = "cancelled"
    /\ Len(results.timestamp) = 2
    /\ Len(csv_file) = 3

\* C9: when the wait after the k-th cycle begins, save_to_csv and then
\* plot_results have run on the whole Series: the CSV holds the header and
\* k rows, one per Sample in insertion order, and the chart has k points;
\* the chart is drawn after the CSV is written.
C9_ExportsFullSeries ==
    /\ pc = "sleep" =>
         /\ cycles = Len(results.timestamp)
         /\ Len(csv_file) = 1 + cycles
         /\ csv_file[1] = Headers
         /\ \A i \in 1..cycles :
              /\ csv_file[i + 1][1].n = results.timestamp[i]
              /\ csv_file[i + 1] = CsvRow(results, i)
         /\ plot_file.x = results.timestamp
    /\ pc = "plot" =>
         /\ Len(csv_file) = 1 + Len(results.timestamp)
         /\ Len(plot_file.x) = Len(results.timestamp) - 1

\* the wait after the third cycle begins with 3 rows exported
C9_ThreeRowsWitness ==
    /\ pc = "sleep"
    /\ cycles = 3
    /\ Len(csv_file) = 4
    /\ Len(plot_file.x) = 3

\* Reading a cell of the CSV file back: the marker N/A is None, digits are
\* a number, True and False are booleans.
ParseCell(c) == CASE c.k = "N/A" -> None
                  [] c.k = "digits" -> Float(c.n)
                  [] c.k = "True" -> Bool(TRUE)
                  [] c.k = "False" -> Bool(FALSE)
                  [] OTHER -> c

\* the cell of target column j in data row i of the file, and the stored
\* measurement it was written from
CellOf(i, j) == csv_file[i + 1][1 + j]
StoredOf(res, i, j) ==
    LET ns == Len(SITES)
        nd == Len(DNS_SERVERS)
        np == Len(PORTS)
    IN IF j <= ns THEN res.site_latencies[SITES[j]][i]
       ELSE IF j <= ns + nd THEN res.dns_times[DNS_SERVERS[j - ns]][i]
       ELSE IF j <= ns + nd + np THEN res.port_status[PORTS[j - ns - nd]][i]
       ELSE IF j = ns + nd + np + 1 THEN res.download_speed[i]
       ELSE res.upload_speed[i]
NumTargets == Len(SITES) + Len(DNS_SERVERS) + Len(PORTS) + 2

\* C10 as stated: every cell of the CSV file reads back as the measurement
\* it was written from, and a cell is N/A exactly when that measurement is
\* None.
C10_Lossless ==
    \A i \in 1..(Len(csv_file) - 1) : \A j \in 1..NumTargets :
        /\ ParseCell(CellOf(i, j)) = StoredOf(results, i, j)
        /\ CellOf(i, j).k = "N/A" <=> StoredOf(results, i, j) = None

\* C12: the two speeds of a Sample are both None or both values, also
\* when measure_speed() failed after its download succeeded.
C12_SpeedPairWhole ==
    /\ Len(results.download_speed) = Len(results.upload_speed)
    /\ \A i \in 1..Len(results.download_speed) :
         results.download_speed[i] = None <=> results.upload_speed[i] = None

\* a third cycle whose measure_speed() was called and failed
C12_FailedSpeedWitness ==
    /\ Len(results.download_speed) = 3
    /\ speed_log = <<FALSE, FALSE, TRUE>>
    /\ results.download_speed[3] = None
    /\ results.upload_speed[3] = None

\* C11: a probe call returns within the timeout it asks for, and with
\* None or False when its target never replies.
C11_BoundedByTimeout ==
    probe.returned =>
        /\ now - probe.t0 <= Requested(probe.kind)
        /\ ~probe.answers => probe.result.value \in {None, Bool(FALSE)}

\* C14: check_site returns the latency exactly when the GET completed in
\* time without a transport error and with status 200; otherwise it
\* returns None, and it never raises.
C14_LatencyOnlyOn200 ==
    probe.kind = "check_site" /\ probe.returned =>
        /\ probe.result.raised = NoExc
        /\ IF /\ probe.answers
              /\ probe.at <= SITE_TIMEOUT
              /\ probe.exc = NoExc
              /\ probe.status = 200
           THEN probe.result.value = Float(probe.at * 1000)
           ELSE probe.result.value = None

\* a completed GET whose status is a redirect
C14_RedirectWitness ==
    /\ probe.kind = "check_site"
    /\ probe.returned
    /\ probe.answers
    /\ probe.at <= SITE_TIMEOUT
    /\ probe.exc = NoExc
    /\ probe.status = 301
    /\ probe.result = Return(None)

\* C13: the run ends (by leaving the loop, or by a propagating exception
\* or a cancellation), the wait between two cycles is at least INTERVAL,
\* and once the loop is left no cycle runs and the Series stays as it is.
C13_Terminates ==
    /\ <>(pc \in {"done", "crashed", "cancelled"})
    /\ [][pc = "sleep" /\ pc' = "while" => now' >= now + INTERVAL]_vars
    /\ [][pc = "done" => pc' = "done" /\ results' = results]_vars

\* the loop was left after the budget was overrun by the time of the calls
C13_DoneLateWitness ==
    /\ pc = "done"
    /\ now - start_time = DURATION + MaxBusy

\* C15: every entry of every port column is True or False, never None:
\* it is True exactly when that call's connect_ex made the connection
\* and False for every other outcome (refused, timed out, socket error).
C15_PortAlwaysBool ==
    \A p \in Range(PORTS) :
       /\ Len(results.port_status[p]) = Len(connected[p])
       /\ \A i \in 1..Len(results.port_status[p]) :
            results.port_status[p][i] = Bool(connected[p][i])

\* a port found closed in the first cycle and open in the second
C15_ClosedThenOpenWitness ==
    /\ Len(results.port_status[PORTS[1]]) = 2
    /\ results.port_status[PORTS[1]][1] = Bool(FALSE)
    /\ results.port_status[PORTS[1]][2] = Bool(TRUE)

\* list b is list a, or list a with one more entry at its end
Extends(a, b) ==
    \/ b = a
    \/ Len(b) = Len(a) + 1 /\ SubSeq(b, 1, Len(a)) = a

\* C16: every step leaves each column of results as it is or with one more
\* entry at its end, and the steps of save_to_csv and plot_results leave
\* results as it is.
C16_AppendOnly ==
    [][/\ Extends(results.timestamp, results'.timestamp)
       /\ \A s \in Range(SITES) :
            Extends(results.site_latencies[s], results'.site_latencies[s])
       /\ \A d \in Range(DNS_SERVERS) :
            Extends(results.dns_times[d], results'.dns_times[d])
       /\ \A p \in Range(PORTS) :
            Extends(results.port_status[p], results'.port_status[p])
       /\ Extends(results.download_speed, results'.download_speed)
       /\ Extends(results.upload_speed, results'.upload_speed)
       /\ pc \in {"save", "plot"} => results' = results]_vars

\* two cycles exported, with different latencies for the first site
C16_TwoEntriesWitness ==
    /\ pc = "plot"
    /\ Len(results.timestamp) = 2
    /\ results.site_latencies[SITES[1]][1] = None
    /\ results.site_latencies[SITES[1]][2] # None

\* the targets at positions 1..k of list were called once, the others not
CalledOnce(list, count, k) ==
    \A j \in 1..Len(list) : count[list[j]] = IF j <= k THEN 1 ELSE 0

\* C17: within a cycle every target is probed once: at each point of the
\* loop body the targets already passed were called exactly once and the
\* others not yet, whatever the earlier probes returned.
C17_EachTargetOnce ==
    /\ pc = "sites" =>
         /\ CalledOnce(SITES, calls.site, idx - 1)
         /\ CalledOnce(DNS_SERVERS, calls.dns, 0)
         /\ CalledOnce(PORTS, calls.port, 0)
    /\ pc = "dns" =>
         /\ CalledOnce(SITES, calls.site, Len(SITES))
         /\ CalledOnce(DNS_SERVERS, calls.dns, idx - 1)
         /\ CalledOnce(PORTS, calls.port, 0)
    /\ pc = "ports" =>
         /\ CalledOnce(SITES, calls.site, Len(SITES))
         /\ CalledOnce(DNS_SERVERS, calls.dns, Len(DNS_SERVERS))
         /\ CalledOnce(PORTS, calls.port, idx - 1)
    /\ pc \in {"speed", "save", "plot", "sleep"} =>
         /\ CalledOnce(SITES, calls.site, Len(SITES))
         /\ CalledOnce(DNS_SERVERS, calls.dns, Len(DNS_SERVERS))
         /\ CalledOnce(PORTS, calls.port, Len(PORTS))

\* every probe of the cycle was made although the first one failed
C17_AfterFailureWitness ==
    /\ pc = "speed"
    /\ cycles = 0
    /\ results.site_latencies[SITES[1]] = <<None>>
    /\ results.site_latencies[SITES[2]] # <<None>>
    /\ calls.site[SITES[2]] = 1
    /\ calls.port[PORTS[1]] = 1

\* C18: the loop test starts a cycle exactly when the elapsed time is less
\* than DURATION; the loop is left only at that test and with at least one
\* Sample; a cycle that began is not cut short by the budget and its wait
\* lasts at least INTERVAL.
C18_BudgetAtLoopTestOnly ==
    /\ [][pc = "while" =>
            pc' = IF now - start_time < DURATION THEN "timestamp"
                  ELSE "done"]_vars
    /\ [][pc' = "done" => pc \in {"while", "done"}]_vars
    /\ [](pc = "done" => Len(results.timestamp) >= 1)
    /\ [][pc = "sleep" /\ pc' # "cancelled" =>
            pc' = "while" /\ now' - now >= INTERVAL]_vars

\* a cycle that began within the budget is in its wait after the budget
C18_PastBudgetWitness ==
    /\ pc = "sleep"
    /\ now - start_time >= DURATION
    /\ cycles = Len(results.timestamp)

\* C19: every export is rectangular: right after save_to_csv has written
\* the file, every data row has as many cells as the header, which has
\* 1 + sites + resolvers + ports + 2, and the cells follow the order of the
\* header; and when save_to_csv starts every list has an entry at every
\* index of the timestamp list.
C19_Rectangular ==
    /\ pc = "plot" =>
         /\ Len(csv_file[1]) =
                1 + Len(SITES) + Len(DNS_SERVERS) + Len(PORTS) + 2
         /\ \A r \in 2..Len(csv_file) :
              /\ Len(csv_file[r]) = Len(csv_file[1])
              /\ csv_file[r][1].k = "time"
              /\ \A j \in 1..NumTargets :
                   LET cell == CellOf(r - 1, j)
                       head == csv_file[1][1 + j]
                       kept == StoredOf(results, r - 1, j)
                   IN /\ head.k = "Port_" <=> cell.k \in {"True", "False"}
                      /\ head.k # "Port_" <=> cell.k \in {"digits", "N/A"}
                      /\ cell.k = "digits" => cell.n = kept.n
                      /\ cell.k = "True" => kept = Bool(TRUE)
                      /\ cell.k = "False" => kept = Bool(FALSE)
    /\ pc = "save" =>
         \A list \in Indexed(results) : Len(list) >= Len(results.timestamp)

\* two rows written by the second export, the first with a failed probe
C19_TwoRowsWitness ==
    /\ pc = "plot"
    /\ Len(csv_file) = 3
    /\ csv_file[2][2].k = "N/A"
    /\ csv_file[3][2].k = "digits"

=============================================================================
